---- MODULE Spec2Model ----
(***************************************************************************)
(* The parser decorator of packages/parser/src/parserDecorator.ts and the  *)
(* metrics record types declared in the same file.                         *)
(*                                                                         *)
(* The decorator (lines 71-97) is modelled from its code.  parse() is      *)
(* imported from ./parser.js and the envelopes from ./envelopes: parse,    *)
(* validate and unwrap follow the parse orchestrator, schema validator and *)
(* envelope extractor contracts of the specification (sections 4.1-4.3 and *)
(* 7).  The metrics buffer operations follow section 4.4 over the types of *)
(* lines 125-180.                                                          *)
(***************************************************************************)
EXTENDS Integers, Sequences, FiniteSets, TLC

VARIABLES options, captured, pc, event, context, callback, plan, settled, outcome, prev,
          storedMetrics, dimensions, emitted, observed, flushed

parserVars == <<options, captured, pc, event, context, callback, plan, settled, outcome, prev>>
metricVars == <<storedMetrics, dimensions, emitted, observed, flushed>>
vars == <<parserVars, metricVars>>

(***************************************************************************)
(* Bounds                                                                  *)
(***************************************************************************)
\* Longest Records list of a batch event.
MaxRecords == 2
\* Most observations buffered under one metric name between two flushes.
MaxObservations == 3

(***************************************************************************)
(* Events                                                                  *)
(***************************************************************************)
\* A field of a JSON object: absent, a string or a number.
StringVals == {"str:A", "str:B", "str:D", "str:X"}

\* The top-level fields of an object: the two fields OrderSchema declares and
\* one it does not.
Payloads ==
    [orderId : {"absent", "str:A", "str:B", "num:7"},
     description : {"absent", "str:D"},
     extra : {"absent", "str:X"}]

Keys == {"orderId", "description", "extra"}

EmptyPayload == [orderId |-> "absent", description |-> "absent", extra |-> "absent"]

\* A record body of a batch event: serialized text, which either deserializes
\* to an object (json) or does not.
Bodies ==
    { [json |-> TRUE, doc |-> [orderId |-> "str:A", description |-> "str:D", extra |-> "absent"]],
      [json |-> TRUE, doc |-> [orderId |-> "str:B", description |-> "str:D", extra |-> "absent"]],
      [json |-> TRUE, doc |-> [orderId |-> "num:7", description |-> "str:D", extra |-> "absent"]],
      [json |-> FALSE, doc |-> EmptyPayload] }

RECURSIVE SeqsUpTo(_, _)
SeqsUpTo(S, n) ==
    IF n = 0 THEN {<<>>}
    ELSE LET shorter == SeqsUpTo(S, n - 1)
         IN  shorter \cup {Append(s, x) : s \in {t \in shorter : Len(t) = n - 1}, x \in S}

\* The raw events the harness passes: a plain object, or a batch event whose
\* Records field lists the bodies.
DirectEvents == {[hasRecords |-> FALSE, Records |-> <<>>, fields |-> p] : p \in Payloads}
BatchEvents ==
    {[hasRecords |-> TRUE, Records |-> rs, fields |-> EmptyPayload] : rs \in SeqsUpTo(Bodies, MaxRecords)}
RawEvents == DirectEvents \cup BatchEvents

NoEvent == [hasRecords |-> FALSE, Records |-> <<>>, fields |-> EmptyPayload]

Contexts == {"ctx1", "ctx2"}
Callbacks == {"cb1", "cb2"}

(***************************************************************************)
(* ParserOptions                                                           *)
(***************************************************************************)
\* The OrderSchema of the documented example: an object of two string fields.
OrderSchema == [defined |-> TRUE, strings |-> {"orderId", "description"}]
NoSchema == [defined |-> FALSE, strings |-> {}]

\* options: ParserOptions<TSchema, TEnvelope, TSafeParse>; envelope can be
\* undefined ("none"), safeParse can be omitted.
ParserOptions ==
    [schema : {OrderSchema, NoSchema},
     envelope : {"none", "SqsEnvelope"},
     safeParse : {"true", "false", "omitted"}]

(***************************************************************************)
(* Schema validator, envelope extractor, parse orchestrator                *)
(***************************************************************************)
NoError == [name |-> "none", record |-> 0, paths |-> {}]

\* validate(schema, candidate): the candidate narrowed to the schema's type, or
\* a failure listing the paths at fault.  It does not throw.
validate(schema, fields) ==
    LET issues == {k \in schema.strings : fields[k] \notin StringVals}
    IN  IF issues = {}
        THEN [ok |-> TRUE,
              value |-> [k \in Keys |-> IF k \in schema.strings THEN fields[k] ELSE "absent"],
              error |-> NoError]
        ELSE [ok |-> FALSE, value |-> EmptyPayload,
              error |-> [name |-> "ValidationFailure", record |-> 0, paths |-> issues]]

\* The records from position i on: each body deserialized and validated in
\* order, stopping at the first that fails.
RECURSIVE unwrapFrom(_, _, _)
unwrapFrom(schema, records, i) ==
    IF i > Len(records) THEN [ok |-> TRUE, items |-> <<>>, error |-> NoError]
    ELSE IF ~records[i].json
    THEN [ok |-> FALSE, items |-> <<>>,
          error |-> [name |-> "DeserializeError", record |-> i, paths |-> {}]]
    ELSE LET v == validate(schema, records[i].doc)
         IN  IF ~v.ok
             THEN [ok |-> FALSE, items |-> <<>>,
                   error |-> [name |-> "EnvelopeFailure", record |-> i, paths |-> v.error.paths]]
             ELSE LET rest == unwrapFrom(schema, records, i + 1)
                  IN  IF rest.ok
                      THEN [ok |-> TRUE, items |-> <<v.value>> \o rest.items, error |-> NoError]
                      ELSE rest

\* unwrap(schema, rawEvent) of a batch envelope: the payloads of the Records,
\* or the failure of the event's shape or of one record.
unwrap(schema, rawEvent) ==
    IF ~rawEvent.hasRecords
    THEN [ok |-> FALSE, items |-> <<>>,
          error |-> [name |-> "EnvelopeFailure", record |-> 0, paths |-> {"Records"}]]
    ELSE unwrapFrom(schema, rawEvent.Records, 1)

IsSafe(safeParse) == safeParse = "true"

\* parse(rawEvent, envelope, schema, safeParse): what the call yields, a value
\* (strict success), a ParsedResult (safe mode) or a raised error.
parse(rawEvent, envelope, schema, safeParse) ==
    LET blank == [kind |-> "raise", multi |-> FALSE, items |-> <<>>,
                  error |-> NoError, originalEvent |-> <<>>]
        r == IF envelope = "none"
             THEN LET v == validate(schema, rawEvent.fields)
                  IN  [ok |-> v.ok, multi |-> FALSE,
                       items |-> IF v.ok THEN <<v.value>> ELSE <<>>, error |-> v.error]
             ELSE LET u == unwrap(schema, rawEvent)
                  IN  [ok |-> u.ok, multi |-> TRUE, items |-> u.items, error |-> u.error]
    IN  IF ~schema.defined
        THEN [blank EXCEPT !.error = [name |-> "ConfigurationError", record |-> 0, paths |-> {"schema"}]]
        ELSE IF r.ok
        THEN [blank EXCEPT !.kind = IF IsSafe(safeParse) THEN "ok" ELSE "value",
                           !.multi = r.multi, !.items = r.items]
        ELSE IF IsSafe(safeParse)
        THEN [blank EXCEPT !.kind = "fail", !.error = r.error, !.originalEvent = <<rawEvent>>]
        ELSE [blank EXCEPT !.error = r.error]

(***************************************************************************)
(* The decorator                                                           *)
(***************************************************************************)
\* const { schema, envelope, safeParse } = options, once, when the decorator
\* is applied.
Capture(o) == [schema |-> o.schema, envelope |-> o.envelope, safeParse |-> o.safeParse]

\* Variants of the decorator, each with one slip.
ReadLiveOptions(cap, live) == live

\* The event as the original would see it were it handed over unparsed.
Unparsed(ev) ==
    [kind |-> "value", multi |-> FALSE, items |-> <<ev.fields>>,
     error |-> NoError, originalEvent |-> <<>>]

Rejecting(err) ==
    [trace |-> <<"parse:start", "parse:throw">>, calls |-> <<>>,
     rejected |-> TRUE, error |-> err, returns |-> "nothing"]

Calling(parsedEvent, ctx, cb) ==
    [trace |-> <<"parse:start", "parse:end", "original:start">>,
     calls |-> <<[event |-> parsedEvent, context |-> ctx, callback |-> cb]>>,
     rejected |-> FALSE, error |-> NoError, returns |-> "original"]

\* A throw of parse is caught and the original called with the raw event.
DescriptorValueSwallow(ev, ctx, cb, cap) ==
    LET parsedEvent == parse(ev, cap.envelope, cap.schema, cap.safeParse)
    IN  IF parsedEvent.kind = "raise" THEN Calling(Unparsed(ev), ctx, cb)
        ELSE Calling(parsedEvent, ctx, cb)

\* A failed ParsedResult is thrown instead of handed to the original.
DescriptorValueRethrow(ev, ctx, cb, cap) ==
    LET parsedEvent == parse(ev, cap.envelope, cap.schema, cap.safeParse)
    IN  IF parsedEvent.kind \in {"raise", "fail"} THEN Rejecting(parsedEvent.error)
        ELSE Calling(parsedEvent, ctx, cb)

\* parse is handed a trimmed copy of the event: its first record, its declared
\* fields.
DescriptorValueFirstRecord(ev, ctx, cb, cap) ==
    LET first == IF ev.Records = <<>> THEN <<>> ELSE <<ev.Records[1]>>
        cut == [ev EXCEPT !.Records = first, !.fields.extra = "absent"]
        parsedEvent == parse(cut, cap.envelope, cap.schema, cap.safeParse)
    IN  IF parsedEvent.kind = "raise" THEN Rejecting(parsedEvent.error)
        ELSE Calling(parsedEvent, ctx, cb)

\* The original is called with the raw event before parse runs.
DescriptorValueCallFirst(ev, ctx, cb, cap) ==
    LET parsedEvent == parse(ev, cap.envelope, cap.schema, cap.safeParse)
    IN  [trace |-> <<"original:start", "parse:start", "parse:end">>,
         calls |-> <<[event |-> Unparsed(ev), context |-> ctx, callback |-> cb]>>,
         rejected |-> FALSE, error |-> NoError, returns |-> "original"]

\* parse runs, but the original is given the event as it came.
DescriptorValueRaw(ev, ctx, cb, cap) ==
    LET parsedEvent == parse(ev, cap.envelope, cap.schema, cap.safeParse)
    IN  IF parsedEvent.kind = "raise" THEN Rejecting(parsedEvent.error)
        ELSE Calling(Unparsed(ev), ctx, cb)

\* The envelope is not forwarded to parse.
DescriptorValueNoEnvelope(ev, ctx, cb, cap) ==
    LET parsedEvent == parse(ev, "none", cap.schema, cap.safeParse)
    IN  IF parsedEvent.kind = "raise" THEN Rejecting(parsedEvent.error)
        ELSE Calling(parsedEvent, ctx, cb)

\* In safe mode a throw of parse is caught and turned into a failed result.
DescriptorValueSafeCatch(ev, ctx, cb, cap) ==
    LET parsedEvent == parse(ev, cap.envelope, cap.schema, cap.safeParse)
    IN  IF parsedEvent.kind = "raise" /\ IsSafe(cap.safeParse)
        THEN Calling([parsedEvent EXCEPT !.kind = "fail", !.originalEvent = <<ev>>], ctx, cb)
        ELSE IF parsedEvent.kind = "raise" THEN Rejecting(parsedEvent.error)
        ELSE Calling(parsedEvent, ctx, cb)

\* The schema, envelope and safeParse the wrapper closes over: the ones
\* destructured at decoration, whatever options holds by now.
OptionsInEffect(cap, live) == cap

NoPlan == [trace |-> <<>>, calls |-> <<>>, rejected |-> FALSE, error |-> NoError, returns |-> "nothing"]

\* descriptor.value: parse the event, then call the original with the parsed
\* event, the same context and callback, and return what it returns.  A throw
\* of parse rejects the async function before the original is reached.  The
\* this of the call is the wrapper's own and is left out.
DescriptorValue(ev, ctx, cb, cap) ==
    LET parsedEvent == parse(ev, cap.envelope, cap.schema, cap.safeParse)
    IN  IF parsedEvent.kind = "raise"
        THEN [trace |-> <<"parse:start", "parse:throw">>, calls |-> <<>>,
              rejected |-> TRUE, error |-> parsedEvent.error, returns |-> "nothing"]
        ELSE [trace |-> <<"parse:start", "parse:end", "original:start">>,
              calls |-> <<[event |-> parsedEvent, context |-> ctx, callback |-> cb]>>,
              rejected |-> FALSE, error |-> NoError, returns |-> "original"]

Pending == [kind |-> "pending", value |-> "", error |-> NoError]

\* What the original handler may do with the call: return a value or reject.
HandlerOutcomes ==
    { [kind |-> "returned", value |-> "res", error |-> NoError],
      [kind |-> "rejected", value |-> "", error |-> [name |-> "HandlerError", record |-> 0, paths |-> {}]] }

NoPrev == [set |-> FALSE, event |-> NoEvent, out |-> parse(NoEvent, "none", NoSchema, "false")]

\* The harness invokes the wrapped handler.
Invoke ==
    /\ pc = "idle"
    /\ \E ev \in RawEvents, ctx \in Contexts, cb \in Callbacks :
          LET p == DescriptorValue(ev, ctx, cb, OptionsInEffect(captured, options))
          IN  /\ event' = ev
              /\ context' = ctx
              /\ callback' = cb
              /\ plan' = p
              /\ pc' = IF p.rejected \/ p.calls = <<>> THEN "done" ELSE "handler"
              /\ outcome' = IF p.rejected
                            THEN [kind |-> "rejected", value |-> "", error |-> p.error]
                            ELSE IF p.calls = <<>>
                            THEN [kind |-> "returned", value |-> "undefined", error |-> NoError]
                            ELSE Pending
    /\ UNCHANGED <<options, captured, settled, prev, metricVars>>

\* The original handler settles, and with it the promise the wrapper returned.
HandlerSettles ==
    /\ pc = "handler"
    /\ \E h \in HandlerOutcomes :
          /\ settled' = h
          /\ outcome' = IF plan.returns = "original" THEN h
                        ELSE [kind |-> "returned", value |-> "undefined", error |-> NoError]
    /\ pc' = "done"
    /\ UNCHANGED <<options, captured, event, context, callback, plan, prev, metricVars>>

\* The harness takes the outcome; the wrapped handler is ready for the next
\* invocation.  prev keeps the last plain event the original was called for
\* and what it was given.
Respond ==
    /\ pc = "done"
    /\ pc' = "idle"
    /\ prev' = IF ~event.hasRecords /\ plan.calls # <<>>
               THEN [set |-> TRUE, event |-> event, out |-> plan.calls[1].event]
               ELSE prev
    /\ event' = NoEvent
    /\ context' = "none"
    /\ callback' = "none"
    /\ plan' = NoPlan
    /\ settled' = Pending
    /\ outcome' = Pending
    /\ UNCHANGED <<options, captured, metricVars>>

\* The caller assigns to one field of the options object it passed.
MutateOptions ==
    /\ \E o \in ParserOptions :
          /\ Cardinality({f \in {"schema", "envelope", "safeParse"} : o[f] # options[f]}) = 1
          /\ options' = o
    /\ UNCHANGED <<captured, pc, event, context, callback, plan, settled, outcome, prev, metricVars>>

(***************************************************************************)
(* Metrics record model                                                    *)
(***************************************************************************)
MetricNames == {"latency", "orders"}
MetricUnits == {"Milliseconds", "Count"}
MetricResolutions == {1, 60}
MetricValues == {10, 20}
\* A dimension may carry the name of a metric.
DimensionNames == {"service", "latency"}
DimensionValues == {"shop"}
Namespaces == {"serverlessAirline"}
Timestamps == {1000, 2000}

\* StoredMetric.value: number | number[].
Scalar(v) == [isArray |-> FALSE, nums |-> <<v>>]

\* The position of name in a list of named entries, 0 when it has none.
IndexOf(entries, name) ==
    IF \E i \in DOMAIN entries : entries[i].name = name
    THEN CHOOSE i \in DOMAIN entries : entries[i].name = name
    ELSE 0

NoObservations == [n \in MetricNames |-> <<>>]

\* addMetric that overwrites the value stored under a present name.
addMetricOverwrite(stored, name, unit, value, resolution) ==
    LET i == IndexOf(stored, name)
    IN  IF i = 0
        THEN Append(stored, [name |-> name, unit |-> unit, value |-> Scalar(value),
                             resolution |-> resolution])
        ELSE [stored EXCEPT ![i].value = Scalar(value)]

\* addMetric(name, unit, value, resolution) on StoredMetrics: a new name gets
\* a scalar entry, a present one has the value appended to its sequence.
addMetric(stored, name, unit, value, resolution) ==
    LET i == IndexOf(stored, name)
    IN  IF i = 0
        THEN Append(stored, [name |-> name, unit |-> unit, value |-> Scalar(value),
                             resolution |-> resolution])
        ELSE [stored EXCEPT ![i].value =
                 [isArray |-> TRUE, nums |-> Append(stored[i].value.nums, value)]]

\* Dimensions: Record<string, string>, in insertion order.
addDimension(dims, name, value) ==
    LET i == IndexOf(dims, name)
    IN  IF i = 0 THEN Append(dims, [name |-> name, value |-> value])
        ELSE [dims EXCEPT ![i].value = value]

\* MetricDefinition of a stored metric.
MetricDefinition(m) == [Name |-> m.name, Unit |-> m.unit, StorageResolution |-> m.resolution]

\* serialize that writes the dimensions over the metric values.
serializeDimensionsLast(timestamp, namespace, dims, stored) ==
    LET dimNames == {dims[i].name : i \in DOMAIN dims}
        metricNames == {stored[i].name : i \in DOMAIN stored}
    IN  [_aws |-> [Timestamp |-> timestamp,
                   CloudWatchMetrics |->
                     << [Namespace |-> namespace,
                         Dimensions |-> << [i \in DOMAIN dims |-> dims[i].name] >>,
                         Metrics |-> [i \in DOMAIN stored |->
                                        [Name |-> stored[i].name, Unit |-> stored[i].unit,
                                         StorageResolution |-> stored[i].resolution]]] >>],
         keys |-> [k \in dimNames \cup metricNames |->
                     IF k \in dimNames
                     THEN [kind |-> "dimension", text |-> dims[IndexOf(dims, k)].value,
                           value |-> [isArray |-> FALSE, nums |-> <<>>]]
                     ELSE [kind |-> "metric", text |-> "",
                           value |-> stored[IndexOf(stored, k)].value]]]

\* serialize(namespace, dimensionSets, storedMetrics): the EmfOutput record;
\* keys holds its top-level keys other than _aws, the metric values written
\* after the dimensions.
serialize(timestamp, namespace, dims, stored) ==
    LET dimNames == {dims[i].name : i \in DOMAIN dims}
        metricNames == {stored[i].name : i \in DOMAIN stored}
    IN  [_aws |-> [Timestamp |-> timestamp,
                   CloudWatchMetrics |->
                     << [Namespace |-> namespace,
                         Dimensions |-> << [i \in DOMAIN dims |-> dims[i].name] >>,
                         Metrics |-> [i \in DOMAIN stored |-> MetricDefinition(stored[i])]] >>],
         keys |-> [k \in dimNames \cup metricNames |->
                     IF k \in metricNames
                     THEN [kind |-> "metric", text |-> "",
                           value |-> stored[IndexOf(stored, k)].value]
                     ELSE [kind |-> "dimension", text |-> dims[IndexOf(dims, k)].value,
                           value |-> [isArray |-> FALSE, nums |-> <<>>]]]]

\* An observation is recorded.
AddMetric ==
    /\ \E name \in MetricNames, unit \in MetricUnits, value \in MetricValues,
          resolution \in MetricResolutions :
          /\ Len(observed[name]) < MaxObservations
          /\ storedMetrics' = addMetric(storedMetrics, name, unit, value, resolution)
          /\ observed' = [observed EXCEPT ![name] = Append(@, value)]
    /\ emitted' = <<>>
    /\ flushed' = NoObservations
    /\ UNCHANGED <<dimensions, parserVars>>

\* A dimension is set.
AddDimension ==
    /\ \E name \in DimensionNames, value \in DimensionValues :
          /\ dimensions' = addDimension(dimensions, name, value)
          /\ dimensions' # dimensions
    /\ emitted' = <<>>
    /\ flushed' = NoObservations
    /\ UNCHANGED <<storedMetrics, observed, parserVars>>

\* Flush: the buffered metrics are serialized into one record, which is
\* written to the sink, and the buffer is cleared.
Flush ==
    /\ \E ts \in Timestamps, ns \in Namespaces :
          emitted' = <<serialize(ts, ns, dimensions, storedMetrics)>>
    /\ flushed' = observed
    /\ storedMetrics' = <<>>
    /\ observed' = NoObservations
    /\ UNCHANGED <<dimensions, parserVars>>

MetricsInit ==
    /\ storedMetrics = <<>>
    /\ dimensions = <<>>
    /\ emitted = <<>>
    /\ observed = NoObservations
    /\ flushed = NoObservations

Init ==
    /\ options \in ParserOptions
    /\ captured = Capture(options)
    /\ pc = "idle"
    /\ event = NoEvent
    /\ context = "none"
    /\ callback = "none"
    /\ plan = NoPlan
    /\ settled = Pending
    /\ outcome = Pending
    /\ prev = NoPrev
    /\ MetricsInit

Next == Invoke \/ HandlerSettles \/ Respond \/ MutateOptions

Spec == Init /\ [][Next]_vars

\* The metrics buffer on its own, beside an idle handler.
MetricsNext == AddMetric \/ AddDimension \/ Flush

MetricsSpecInit ==
    /\ Init
    /\ options = [schema |-> OrderSchema, envelope |-> "none", safeParse |-> "omitted"]

MetricsSpec == MetricsSpecInit /\ [][MetricsNext]_vars

(***************************************************************************)
(* Properties                                                              *)
(***************************************************************************)
\* The candidate has every field the schema declares, as a string.
Conforms(schema, fields) == \A k \in schema.strings : fields[k] \in StringVals

\* The raw event does not parse under the options: the event itself fails the
\* schema (no envelope), or the event has no Records, or one record does not
\* deserialize or fails the schema (batch envelope).
ParseFails(ev, cap) ==
    /\ cap.schema.defined
    /\ IF cap.envelope = "none"
       THEN ~Conforms(cap.schema, ev.fields)
       ELSE \/ ~ev.hasRecords
            \/ \E i \in DOMAIN ev.Records :
                  ~ev.Records[i].json \/ ~Conforms(cap.schema, ev.Records[i].doc)

Strict == captured.safeParse \in {"false", "omitted"}
Invoked == pc \in {"handler", "done"}
ParseErrors == {"ValidationFailure", "EnvelopeFailure", "DeserializeError"}

\* C1: in strict mode (safeParse false or omitted) an invocation whose event
\* fails to parse ends rejected with the parse failure, and the original
\* handler is not called in it.
C1_StrictFailureRejects ==
    (Invoked /\ Strict /\ ParseFails(event, captured)) =>
        /\ pc = "done"
        /\ outcome.kind = "rejected"
        /\ outcome.error.name \in ParseErrors
        /\ plan.calls = <<>>

C1_Witness ==
    /\ pc = "done" /\ captured.safeParse = "omitted" /\ captured.envelope = "SqsEnvelope"
    /\ captured.schema.defined /\ Len(event.Records) = 2
    /\ event.Records[1].json /\ Conforms(captured.schema, event.Records[1].doc)
    /\ ~Conforms(captured.schema, event.Records[2].doc)
    /\ outcome.kind = "rejected" /\ outcome.error.name = "EnvelopeFailure"

\* C2: in safe mode (safeParse true) no failure to parse, of the schema, of
\* the envelope's shape or of deserializing a record, is raised: the original
\* handler is called once with a ParsedResult whose success is false.
C2_SafeFailureIsAResult ==
    (Invoked /\ captured.safeParse = "true" /\ ParseFails(event, captured)) =>
        /\ ~plan.rejected
        /\ Len(plan.calls) = 1
        /\ plan.calls[1].event.kind = "fail"
        /\ plan.calls[1].event.error.name \in ParseErrors
        /\ (outcome.kind = "rejected" => outcome.error.name = "HandlerError")

C2_Witness ==
    /\ pc = "handler" /\ captured.safeParse = "true" /\ captured.envelope = "SqsEnvelope"
    /\ Len(event.Records) = 2 /\ ~event.Records[2].json
    /\ Len(plan.calls) = 1
    /\ plan.calls[1].event.kind = "fail"
    /\ plan.calls[1].event.error.name = "DeserializeError"

\* C3: the originalEvent of a failed ParsedResult handed to the original
\* handler is the raw event the wrapper was invoked with, whole.
C3_OriginalEventIsRawEvent ==
    Invoked =>
        \A i \in DOMAIN plan.calls :
            plan.calls[i].event.kind = "fail" => plan.calls[i].event.originalEvent = <<event>>

C3_Witness ==
    /\ pc = "handler" /\ captured.envelope = "SqsEnvelope" /\ Len(event.Records) = 2
    /\ Conforms(captured.schema, event.Records[1].doc)
    /\ ~Conforms(captured.schema, event.Records[2].doc)
    /\ plan.calls[1].event.kind = "fail"
    /\ plan.calls[1].event.originalEvent = <<event>>

\* C4: in every invocation parse has ended before the original handler
\* starts, the handler does not start when parse throws, and the event the
\* handler is given is what parse returned.
C4_ParseBeforeHandler ==
    Invoked =>
        /\ \A i \in DOMAIN plan.trace :
              plan.trace[i] = "original:start" =>
                  /\ \E j \in 1..(i - 1) : plan.trace[j] = "parse:end"
                  /\ \A j \in DOMAIN plan.trace : plan.trace[j] # "parse:throw"
        /\ \A i \in DOMAIN plan.calls :
              plan.calls[i].event =
                  parse(event, captured.envelope, captured.schema, captured.safeParse)
        /\ (pc = "handler" => plan.calls # <<>>)

C4_Witness ==
    /\ pc = "handler" /\ plan.trace = <<"parse:start", "parse:end", "original:start">>
    /\ captured.envelope = "none" /\ Strict /\ event.fields.extra = "str:X"
    /\ plan.calls[1].event.items[1].extra = "absent"

C7_MissingSchemaIsFatal ==
    (Invoked /\ ~captured.schema.defined) =>
        /\ pc = "done"
        /\ outcome.kind = "rejected"
        /\ outcome.error.name = "ConfigurationError"
        /\ plan.calls = <<>>

C7_Witness ==
    /\ pc = "done" /\ ~captured.schema.defined /\ captured.safeParse = "true"
    /\ captured.envelope = "SqsEnvelope" /\ event.hasRecords
    /\ outcome.kind = "rejected" /\ outcome.error.name = "ConfigurationError"

\* C8: the value stored under each metric name holds the observations
\* recorded under it since the last flush, in call order: no entry before the
\* first, a scalar after the first, a sequence from the second on.
C8_ObservationsAccumulate ==
    \A n \in MetricNames :
        LET i == IndexOf(storedMetrics, n)
        IN  IF observed[n] = <<>> THEN i = 0
            ELSE /\ i # 0
                 /\ storedMetrics[i].value.nums = observed[n]
                 /\ storedMetrics[i].value.isArray = (Len(observed[n]) >= 2)
                 /\ \A j \in DOMAIN storedMetrics : storedMetrics[j].name = n => j = i

C8_Witness ==
    /\ Len(storedMetrics) = 2
    /\ storedMetrics[2].name = "latency"
    /\ storedMetrics[2].value = [isArray |-> TRUE, nums |-> <<10, 20, 10>>]
    /\ storedMetrics[1].value = [isArray |-> FALSE, nums |-> <<20>>]

\* C9: the record a flush emits lists in _aws.CloudWatchMetrics[0].Metrics
\* every metric name added since the flush before, every listed name is a
\* top-level key holding the values recorded under it, and every name in
\* Dimensions is a top-level key.
C9_EmfRecordComplete ==
    emitted # <<>> =>
        LET emf == emitted[1]
            group == emf._aws.CloudWatchMetrics[1]
        IN  /\ \A n \in MetricNames :
                  flushed[n] # <<>> => \E i \in DOMAIN group.Metrics : group.Metrics[i].Name = n
            /\ \A i \in DOMAIN group.Metrics :
                  LET n == group.Metrics[i].Name
                  IN  /\ n \in DOMAIN emf.keys
                      /\ emf.keys[n].kind = "metric"
                      /\ emf.keys[n].value.nums = flushed[n]
                      /\ flushed[n] # <<>>
            /\ \A d \in DOMAIN group.Dimensions[1] : group.Dimensions[1][d] \in DOMAIN emf.keys

C9_Witness ==
    /\ emitted # <<>>
    /\ Len(emitted[1]._aws.CloudWatchMetrics[1].Metrics) = 2
    /\ Len(emitted[1]._aws.CloudWatchMetrics[1].Dimensions[1]) = 2
    /\ flushed["latency"] = <<10, 20>>
    /\ emitted[1].keys["latency"].value = [isArray |-> TRUE, nums |-> <<10, 20>>]

\* parse throws for the event under the options.
ParseRaises(ev, cap) == ~cap.schema.defined \/ (cap.safeParse # "true" /\ ParseFails(ev, cap))

\* C10: when parse does not throw, the original handler is called once, with
\* the context and callback the wrapper received and the event parsed under
\* the schema, envelope and safeParse captured at decoration; the wrapper's
\* outcome is pending while the handler runs and then is the handler's.
C10_WrapperIsTransparent ==
    (Invoked /\ ~ParseRaises(event, captured)) =>
        /\ Len(plan.calls) = 1
        /\ plan.calls[1].context = context
        /\ plan.calls[1].callback = callback
        /\ plan.calls[1].event =
              parse(event, captured.envelope, captured.schema, captured.safeParse)
        /\ (pc = "handler" => outcome = Pending)
        /\ (pc = "done" => outcome = settled /\ settled \in HandlerOutcomes)
        /\ (prev.set /\ prev.event = event => prev.out = plan.calls[1].event)

C10_Witness ==
    /\ pc = "done" /\ options # captured /\ options.safeParse # captured.safeParse
    /\ prev.set /\ prev.event = event
    /\ Len(plan.calls) = 1 /\ plan.calls[1].context = "ctx2" /\ plan.calls[1].callback = "cb2"
    /\ outcome.kind = "rejected" /\ outcome = settled
====
